---------------------------- MODULE Spec2Model ----------------------------
(***************************************************************************)
(* SHL standings scraper (scraper.py): the pipeline of main -- load the    *)
(* prior snapshot, fetch the page, parse the first table, compare, save,   *)
(* publish -- and the pure functions parse_standings and compare_standings.*)
(*                                                                         *)
(* Text is a sequence of one-character strings, so that get_text(strip)    *)
(* and int() are computed and not assumed.  A Python value that may be     *)
(* None is a record [tag, val].  Floats rounded to two decimals are kept   *)
(* as an integer number of hundredths.                                     *)
(***************************************************************************)
EXTENDS Integers, Sequences, FiniteSets, TLC

VARIABLES
    pc,             \* position of main: the call it makes next
    page,           \* what the server answers for URL (the tables of the page)
    file,           \* content of OUTPUT_FILE on disk
    file0,          \* content of OUTPUT_FILE when main started
    existing,       \* main: existing
    html,           \* main: html
    standings,      \* main: standings
    has_changes,    \* main: has_changes
    changes,        \* main: changes
    exit_status,    \* status of the process once pc = "done"
    fatal,          \* why the run ended early: none, fetch, parse, save, uncaught
    save_result,    \* notcalled, ok, failed: what save_to_json returned
    publish_calls,  \* number of calls of git_commit_and_push
    commit_msg      \* the message git_commit_and_push committed with

vars == <<pc, page, file, file0, existing, html, standings, has_changes,
          changes, exit_status, fatal, save_result, publish_calls, commit_msg>>

---------------------------------------------------------------------------
(* Bounds of the model *)

\* data rows of the fetched table
MaxRows == 2
\* data rows of the table a prior snapshot on disk was parsed from
MaxPriorRows == 2
\* records of each argument of compare_standings called on its own
MaxTeams == 2

---------------------------------------------------------------------------
(* Program constants *)

TOTAL_GAMES_IN_SEASON == 52
API_VERSION == "1.0.0"

None == [tag |-> "none", val |-> <<>>]
Some(v) == [tag |-> "some", val |-> v]
\* a JSON number where a list was expected: not None, and without len()
ANumber == [tag |-> "number", val |-> <<>>]

SeqsUpTo(S, n) == UNION {[1..k -> S] : k \in 0..n}

---------------------------------------------------------------------------
(* Text: get_text(strip=True) and int() *)

Digits == {"0", "1", "2", "3", "4", "5", "6", "7", "8", "9"}

DigitVal(c) ==
    CASE c = "0" -> 0 [] c = "1" -> 1 [] c = "2" -> 2 [] c = "3" -> 3
      [] c = "4" -> 4 [] c = "5" -> 5 [] c = "6" -> 6 [] c = "7" -> 7
      [] c = "8" -> 8 [] c = "9" -> 9

RECURSIVE LStrip(_)
LStrip(s) == IF s # <<>> /\ Head(s) = " " THEN LStrip(Tail(s)) ELSE s

RECURSIVE RStrip(_)
RStrip(s) ==
    IF s # <<>> /\ s[Len(s)] = " " THEN RStrip(SubSeq(s, 1, Len(s) - 1)) ELSE s

\* cell.get_text(strip=True)
get_text(cell) == RStrip(LStrip(cell))

\* the digits of an integer literal, after its optional sign
Unsigned(s) == IF s # <<>> /\ Head(s) \in {"-", "+"} THEN Tail(s) ELSE s

\* int(s) raises ValueError unless s is an optional sign and digits
IsInt(s) ==
    LET d == Unsigned(get_text(s))
    IN  d # <<>> /\ \A i \in 1..Len(d) : d[i] \in Digits

RECURSIVE DigitsValue(_)
DigitsValue(d) ==
    IF d = <<>> THEN 0
    ELSE 10 * DigitsValue(SubSeq(d, 1, Len(d) - 1)) + DigitVal(d[Len(d)])

\* int(s)
int(s) ==
    LET t == get_text(s)
    IN  IF t # <<>> /\ Head(t) = "-" THEN 0 - DigitsValue(Unsigned(t))
        ELSE DigitsValue(Unsigned(t))

\* round(n / d, 2) in hundredths, for d > 0: round-half-even
Round2(n, d) ==
    LET m == n * 100
        q == m \div d
        r == m % d
    IN  IF 2 * r < d THEN q
        ELSE IF 2 * r > d THEN q + 1
        ELSE IF q % 2 = 0 THEN q ELSE q + 1

---------------------------------------------------------------------------
(* parse_standings *)

\* the key list of line 222 with a calculated field added to it
StatKeys_WithCalculated ==
    <<"games_played", "wins", "ties", "losses", "ot_wins", "ot_losses",
      "goals_for", "goals_against", "goal_diff", "points", "win_percentage">>

\* the ten numeric columns, in the order of the cells 2..11
StatKeys == <<"games_played", "wins", "ties", "losses", "ot_wins",
              "ot_losses", "goals_for", "goals_against", "goal_diff",
              "points">>

\* the dictionary built for one row with at least 11 integer-valued cells
team_data(position, cells) ==
    LET gp == int(cells[2])
        wins == int(cells[3])
        goals_for == int(cells[8])
        points == int(cells[11])
    IN  [position |-> position,
         team |-> get_text(cells[1]),
         games_played |-> gp,
         wins |-> wins,
         ties |-> int(cells[4]),
         losses |-> int(cells[5]),
         ot_wins |-> int(cells[6]),
         ot_losses |-> int(cells[7]),
         goals_for |-> goals_for,
         goals_against |-> int(cells[9]),
         goal_diff |-> int(cells[10]),
         points |-> points,
         win_percentage |-> IF gp > 0 THEN Round2(wins * 100, gp) ELSE 0,
         points_per_game |-> IF gp > 0 THEN Round2(points, gp) ELSE 0,
         goals_per_game |-> IF gp > 0 THEN Round2(goals_for, gp) ELSE 0,
         games_remaining |-> TOTAL_GAMES_IN_SEASON - gp]

\* the try block of a row: int() of the cells 2..11 raises ValueError or not
RowParses(cells) == \A i \in 2..11 : IsInt(cells[i])

\* the loop over enumerate(rows[1:], start=1)
RECURSIVE ParseRows(_, _, _)
ParseRows(rows, position, acc) ==
    IF rows = <<>> THEN acc
    ELSE LET cells == Head(rows)
         IN  IF Len(cells) < 11
             THEN ParseRows(Tail(rows), position + 1, acc)
             ELSE IF ~RowParses(cells)
             THEN ParseRows(Tail(rows), position + 1, acc)
             ELSE ParseRows(Tail(rows), position + 1,
                            Append(acc, team_data(position, cells)))

\* tables: the tables of the page in document order, each its rows, each row
\* its td cells
parse_standings(tables) ==
    IF tables = <<>> THEN None
    ELSE LET rows == tables[1]
         IN  IF Len(rows) < 2 THEN None
             ELSE LET st == ParseRows(Tail(rows), 1, <<>>)
                  IN  IF st = <<>> THEN None ELSE Some(st)

---------------------------------------------------------------------------
(* compare_standings *)

\* a change message, kept as its parts instead of the formatted string
Msg(type, team, old, new, teams, stats) ==
    [type |-> type, team |-> team, old |-> old, new |-> new,
     teams |-> teams, stats |-> stats]

\* f"Team count changed: {len(old)} -> {len(new)}"
CountMsg(o, n) == Msg("count", <<>>, o, n, {}, <<>>)
\* f"New teams: {', '.join(added)}"
AddedMsg(added) == Msg("added", <<>>, 0, 0, added, <<>>)
\* f"Removed teams: {', '.join(removed)}"
RemovedMsg(removed) == Msg("removed", <<>>, 0, 0, removed, <<>>)
\* f"{team_name}: pos {old} -> {new}"
PosMsg(team, o, n) == Msg("pos", team, o, n, {}, <<>>)
\* f"{team_name}: {', '.join(stat_changes)}"
StatMsg(team, stats) == Msg("stat", team, 0, 0, {}, stats)

\* {team['team']: team for team in seq}[name]: the last record of that name
ByTeam(seq, name) ==
    seq[CHOOSE i \in 1..Len(seq) :
            /\ seq[i].team = name
            /\ \A j \in (i + 1)..Len(seq) : seq[j].team # name]

TeamNames(seq) == {seq[i].team : i \in 1..Len(seq)}

\* the inner loop over the keys: f"{key} {old}->{new}" for each differing key
RECURSIVE StatChanges(_, _, _)
StatChanges(old_team, new_team, k) ==
    IF k > Len(StatKeys) THEN <<>>
    ELSE LET key == StatKeys[k]
         IN  (IF old_team[key] # new_team[key]
              THEN <<[key |-> key, old |-> old_team[key], new |-> new_team[key]]>>
              ELSE <<>>)
             \o StatChanges(old_team, new_team, k + 1)

\* the body of the loop over enumerate(new, start=1) for one team
TeamChanges(old, new_team) ==
    LET old_team == ByTeam(old, new_team.team)
        stat_changes == StatChanges(old_team, new_team, 1)
    IN  (IF old_team.position # new_team.position
         THEN <<PosMsg(new_team.team, old_team.position, new_team.position)>>
         ELSE <<>>)
        \o (IF stat_changes # <<>>
            THEN <<StatMsg(new_team.team, stat_changes)>>
            ELSE <<>>)

RECURSIVE PerTeamChanges(_, _, _)
PerTeamChanges(old, new, i) ==
    IF i > Len(new) THEN <<>>
    ELSE TeamChanges(old, new[i]) \o PerTeamChanges(old, new, i + 1)

\* compare_standings from the team lookups on: membership, then per team
CompareTeams(old, new) ==
    LET old_teams == TeamNames(old)
        new_teams == TeamNames(new)
        added == new_teams \ old_teams
        removed == old_teams \ new_teams
    IN  IF old_teams # new_teams
        THEN <<TRUE, (IF added # {} THEN <<AddedMsg(added)>> ELSE <<>>)
                     \o (IF removed # {} THEN <<RemovedMsg(removed)>> ELSE <<>>)>>
        ELSE LET ch == PerTeamChanges(old, new, 1)
             IN  <<Len(ch) > 0, ch>>

\* compare_standings without the test of line 190
compare_standings_NoCountCheck(old, new) == CompareTeams(old, new)

\* compare_standings(old, new) = <<has_changes, changes>>
compare_standings(old, new) ==
    IF Len(old) # Len(new)
    THEN <<TRUE, <<CountMsg(Len(old), Len(new))>>>>
    ELSE CompareTeams(old, new)

---------------------------------------------------------------------------
(* The snapshot file: load_existing_standings and save_to_json *)

\* what OUTPUT_FILE holds.  kind is one of
\*   absent      no such file
\*   unreadable  open() raises IOError
\*   garbage     text that is not JSON
\*   partial     the beginning of a document whose writing did not finish
\*   nonobject   JSON that is not an object (a list, a string, a number)
\*   nokey       a JSON object without the key standings
\*   number      a JSON object whose standings is a number
\*   snapshot    a document written by save_to_json
FileOf(kind, timestamp, data) ==
    [kind |-> kind,
     api_version |-> IF kind = "snapshot" THEN API_VERSION ELSE "",
     timestamp |-> timestamp,
     total_games_in_season |->
         IF kind = "snapshot" THEN TOTAL_GAMES_IN_SEASON ELSE 0,
     teams_count |-> Len(data),
     standings |-> data]

\* the document save_to_json builds, written at time ts
Document(data, ts) == FileOf("snapshot", ts, data)

\* load_existing_standings(f): raised is an exception it does not catch
load_existing_standings(f) ==
    CASE f.kind = "absent" -> [raised |-> FALSE, ret |-> None]
      [] f.kind = "unreadable" -> [raised |-> FALSE, ret |-> None]
      [] f.kind \in {"garbage", "partial"} -> [raised |-> FALSE, ret |-> None]
      [] f.kind = "nonobject" -> [raised |-> TRUE, ret |-> None]
      [] f.kind = "nokey" -> [raised |-> FALSE, ret |-> None]
      [] f.kind = "number" -> [raised |-> FALSE, ret |-> ANumber]
      [] f.kind = "snapshot" -> [raised |-> FALSE, ret |-> Some(f.standings)]

\* what the disk lets save_to_json do
SaveOutcomes == {"ok", "open_failed", "write_failed"}

\* OUTPUT_FILE after save_to_json(data, OUTPUT_FILE): open(filename, 'w')
\* empties the file before json.dump writes into it
save_to_json_file(f, data, ts, outcome) ==
    CASE outcome = "ok" -> Document(data, ts)
      [] outcome = "open_failed" -> f
      [] outcome = "write_failed" -> FileOf("partial", "", <<>>)

\* the value save_to_json returns
save_to_json(outcome) == outcome = "ok"

---------------------------------------------------------------------------
(* git_commit_and_push: the commit message *)

NoMsg == Msg("none", <<>>, 0, 0, {}, <<>>)

\* [c for c in changes if ' pos ' in c]
pos_changes(ch) == SelectSeq(ch, LAMBDA c : c.type = "pos")

git_message(ch) ==
    IF Len(ch) = 1 THEN ch[1]
    ELSE IF pos_changes(ch) # <<>>
    THEN IF Len(pos_changes(ch)) = 1 THEN pos_changes(ch)[1]
         ELSE Msg("n_pos_changes", <<>>, 0, Len(pos_changes(ch)), {}, <<>>)
    ELSE Msg("n_teams_updated", <<>>, 0, Len(ch), {}, <<>>)

---------------------------------------------------------------------------
(* The inputs: pages the server can answer with, files the disk can hold *)

TeamA == <<"A">>
TeamB == <<"B">>

\* a row of 11 td cells; the text of the games_played cell is gp
Row(team, gp) ==
    <<team, gp, <<"1">>, <<"0">>, <<"0">>, <<"0">>, <<"0">>, <<"2">>,
      <<"1">>, <<"1">>, <<"3">>>>

GamesTexts == {<<"0">>, <<" ", "1", "2", " ">>}

\* a row of 9 td cells
ShortRow == SubSeq(Row(TeamA, <<"0">>), 1, 9)
\* a row of 11 td cells of which one is not an integer
BadRow == Row(TeamB, <<"x">>)
\* a row of 12 td cells
LongRow == Row(TeamA, <<"1", "2">>) \o << <<"-">> >>
\* the header row: th cells, no td
HeaderRow == <<>>

RowPool ==
    {Row(t, g) : t \in {TeamA, TeamB}, g \in GamesTexts}
        \cup {ShortRow, BadRow, LongRow}

\* the pages with at most n data rows in their first table: no table, a table
\* without rows, a header and data rows
Pages(n) ==
    {<<>>, << <<>> >>}
        \cup {<< <<HeaderRow>> \o d >> : d \in SeqsUpTo(RowPool, n)}

\* the record lists parse_standings returns for these pages
Parsed(n) ==
    {parse_standings(p).val : p \in {q \in Pages(n) : parse_standings(q) # None}}

\* OUTPUT_FILE before the run: nothing, something that is no snapshot, or the
\* snapshot an earlier run saved
InitialFiles ==
    {FileOf(k, "", <<>>) :
        k \in {"absent", "unreadable", "garbage", "nonobject", "nokey", "number"}}
        \cup {Document(d, "t0") : d \in {<<>>} \cup Parsed(MaxPriorRows)}

---------------------------------------------------------------------------
(* main *)

\* line 328: if existing is not None
AfterParse(ex) == IF ex # None THEN "compare" ELSE "save"

\* main without the return of line 334: it saves whatever the comparison says
AfterCompare_AlwaysSave(hc) == "save"

\* lines 331-334: if not has_changes: return
AfterCompare(hc) == IF ~hc THEN "done" ELSE "save"

\* main with git_commit_and_push moved after the if/else: a first run publishes too
AfterSave_AlwaysPublish(ex) == "publish"

\* after a successful save: git_commit_and_push in the branch of line 328,
\* nothing more in the else branch of line 350
AfterSave(ex) == IF ex # None THEN "publish" ELSE "done"

Init ==
    /\ pc = "load"
    /\ page \in Pages(MaxRows)
    /\ file \in InitialFiles
    /\ file0 = file
    /\ existing = None
    /\ html = None
    /\ standings = None
    /\ has_changes = FALSE
    /\ changes = <<>>
    /\ exit_status = 0
    /\ fatal = "none"
    /\ save_result = "notcalled"
    /\ publish_calls = 0
    /\ commit_msg = NoMsg

\* sys.exit(1), or an exception nothing catches
Abort(why) ==
    /\ pc' = "done"
    /\ exit_status' = 1
    /\ fatal' = why

\* existing = load_existing_standings(OUTPUT_FILE)
Load ==
    /\ pc = "load"
    /\ LET r == load_existing_standings(file)
       IN  IF r.raised
           THEN Abort("uncaught") /\ UNCHANGED existing
           ELSE /\ existing' = r.ret
                /\ pc' = "fetch"
                /\ UNCHANGED <<exit_status, fatal>>
    /\ UNCHANGED <<page, file, file0, html, standings, has_changes, changes,
                   save_result, publish_calls, commit_msg>>

\* html = fetch_page(URL): the text of the response, or None on any
\* RequestException
Fetch ==
    /\ pc = "fetch"
    /\ \E ok \in BOOLEAN :
         /\ html' = IF ok THEN Some(page) ELSE None
         /\ IF ok
            THEN pc' = "parse" /\ UNCHANGED <<exit_status, fatal>>
            ELSE Abort("fetch")
    /\ UNCHANGED <<page, file, file0, existing, standings, has_changes,
                   changes, save_result, publish_calls, commit_msg>>

\* standings = parse_standings(html)
Parse ==
    /\ pc = "parse"
    /\ standings' = parse_standings(html.val)
    /\ IF standings' = None
       THEN Abort("parse")
       ELSE pc' = AfterParse(existing) /\ UNCHANGED <<exit_status, fatal>>
    /\ UNCHANGED <<page, file, file0, existing, html, has_changes, changes,
                   save_result, publish_calls, commit_msg>>

\* has_changes, changes = compare_standings(existing, standings); len() of a
\* number raises TypeError
Compare ==
    /\ pc = "compare"
    /\ IF existing.tag = "number"
       THEN Abort("uncaught") /\ UNCHANGED <<has_changes, changes>>
       ELSE LET r == compare_standings(existing.val, standings.val)
            IN  /\ has_changes' = r[1]
                /\ changes' = r[2]
                /\ pc' = AfterCompare(r[1])
                /\ UNCHANGED <<exit_status, fatal>>
    /\ UNCHANGED <<page, file, file0, existing, html, standings, save_result,
                   publish_calls, commit_msg>>

\* success = save_to_json(standings, OUTPUT_FILE)
Save ==
    /\ pc = "save"
    /\ \E outcome \in SaveOutcomes :
         /\ file' = save_to_json_file(file, standings.val, "t1", outcome)
         /\ save_result' = IF save_to_json(outcome) THEN "ok" ELSE "failed"
         /\ IF save_to_json(outcome)
            THEN pc' = AfterSave(existing) /\ UNCHANGED <<exit_status, fatal>>
            ELSE Abort("save")
    /\ UNCHANGED <<page, file0, existing, html, standings, has_changes,
                   changes, publish_calls, commit_msg>>

\* git_commit_and_push(changes): its result is not looked at; commit_msg is the
\* message of the commit when add, commit and push all succeed
Publish ==
    /\ pc = "publish"
    /\ publish_calls' = publish_calls + 1
    /\ \E ok \in BOOLEAN :
         commit_msg' = IF ok THEN git_message(changes) ELSE NoMsg
    /\ pc' = "done"
    /\ UNCHANGED <<page, file, file0, existing, html, standings, has_changes,
                   changes, exit_status, fatal, save_result>>

Next == Load \/ Fetch \/ Parse \/ Compare \/ Save \/ Publish

Spec == Init /\ [][Next]_vars

---------------------------------------------------------------------------
(* Properties of a run of main *)

Distinct(seq) ==
    \A i, j \in 1..Len(seq) : i # j => seq[i].team # seq[j].team

\* C1: the records parse_standings returns have the positions 1..n in order,
\* without a gap, whatever rows were skipped before them.
C1_PositionsAreOneToN ==
    standings # None =>
        \A i \in 1..Len(standings.val) : standings.val[i].position = i

\* C2: the snapshot is written (save_to_json called, the file changed) only
\* when no prior snapshot was loaded or the comparison reported changes; with a
\* prior snapshot and no changes the run ends with status 0, the file as it
\* was, and neither save nor publish called.
C2_WriteOnlyOnChange ==
    /\ (save_result # "notcalled" \/ file # file0 \/ pc \in {"save", "publish"})
           => (existing = None \/ has_changes)
    /\ (pc = "done" /\ fatal = "none" /\ existing # None /\ ~has_changes)
           => /\ exit_status = 0
              /\ file = file0
              /\ save_result = "notcalled"
              /\ publish_calls = 0

\* a run that loaded a snapshot of two teams, found no change and ended
C2_Witness ==
    /\ pc = "done"
    /\ fatal = "none"
    /\ existing.tag = "some"
    /\ Len(existing.val) = 2
    /\ standings # None
    /\ ~has_changes
    /\ file = file0

\* C3: after a run that ended in a fatal condition the file holds the complete
\* prior content or a complete new snapshot.
C3_NoPartialWrite ==
    (pc = "done" /\ fatal # "none")
        => (file = file0 \/ file = Document(standings.val, "t1"))

\* C4: the exit status is nonzero exactly when the fetch, the parse or the save
\* failed.
C4_ExitStatus ==
    pc = "done" => (exit_status # 0 <=> fatal \in {"fetch", "parse", "save"})

\* C5: git_commit_and_push is called at most once, only after a successful save
\* in a run that loaded a prior snapshot and found changes; never on a first
\* run and never after a fatal condition.
C5_PublishOnlyAfterSavedChanges ==
    /\ publish_calls <= 1
    /\ (publish_calls > 0 \/ pc = "publish")
           => /\ save_result = "ok"
              /\ file = Document(standings.val, "t1")
              /\ existing # None
              /\ has_changes
    /\ (existing = None \/ fatal # "none") => publish_calls = 0

\* a run that published once and ended with status 0
C5_Witness ==
    /\ pc = "done"
    /\ publish_calls = 1
    /\ exit_status = 0
    /\ existing.tag = "some"
    /\ has_changes

\* C6: when OUTPUT_FILE is absent, unreadable, not JSON, JSON that is not an
\* object, or an object without standings, load_existing_standings returns
\* None and does not end the run: main goes on as on a first run.
C6_LoadNeverEndsRun ==
    (/\ pc # "load"
     /\ file0.kind \in {"absent", "unreadable", "garbage", "nonobject", "nokey"})
        => (existing = None /\ fatal # "uncaught")

\* C7: comparing a parsed record list with itself reports no change and no
\* message.
C7_CompareWithItself ==
    standings # None =>
        compare_standings(standings.val, standings.val) = <<FALSE, <<>>>>

\* C8: the team names of a parsed record list, and of a snapshot the run
\* saved, are pairwise distinct.
C8_TeamNamesDistinct ==
    /\ standings # None => Distinct(standings.val)
    /\ (file # file0 /\ file.kind = "snapshot") => Distinct(file.standings)

---------------------------------------------------------------------------
(* compare_standings called on its own, on record lists of any content *)

\* the fields of a record besides team and position
RawCounters ==
    {"games_played", "wins", "ties", "losses", "ot_wins", "ot_losses",
     "goals_for", "goals_against", "goal_diff", "points"}
CalculatedFields ==
    {"win_percentage", "points_per_game", "goals_per_game", "games_remaining"}

\* the records of the teams A and B that differ from the parsed row in at
\* most the field f
RecordPool(f) ==
    {[team_data(0, Row(t, <<"0">>)) EXCEPT ![f] = @ + v] :
        t \in {TeamA, TeamB}, v \in {0, 1}}

\* how the position fields of a list run: as the index, one further down (a
\* row skipped before them), or against the order of the list
PositionKinds == {"index", "shifted", "reversed"}

Positioned(seq, kind) ==
    [i \in 1..Len(seq) |->
        [seq[i] EXCEPT !.position =
            CASE kind = "index" -> i
              [] kind = "shifted" -> i + 1
              [] kind = "reversed" -> Len(seq) + 1 - i]]

InitCompare ==
    /\ pc = "call"
    /\ \E f \in RawCounters \cup CalculatedFields, kind \in PositionKinds :
         \E old \in SeqsUpTo(RecordPool(f), MaxTeams),
            new \in SeqsUpTo(RecordPool(f), MaxTeams) :
              /\ existing = Some(Positioned(old, "index"))
              /\ standings = Some(Positioned(new, kind))
    /\ page = <<>>
    /\ file = FileOf("absent", "", <<>>)
    /\ file0 = file
    /\ html = None
    /\ has_changes = FALSE
    /\ changes = <<>>
    /\ exit_status = 0
    /\ fatal = "none"
    /\ save_result = "notcalled"
    /\ publish_calls = 0
    /\ commit_msg = NoMsg

\* has_changes, changes = compare_standings(existing, standings)
CallCompare ==
    /\ pc = "call"
    /\ LET r == compare_standings(existing.val, standings.val)
       IN  has_changes' = r[1] /\ changes' = r[2]
    /\ pc' = "returned"
    /\ UNCHANGED <<page, file, file0, existing, html, standings, exit_status,
                   fatal, save_result, publish_calls, commit_msg>>

NextCompare == CallCompare

SpecCompare == InitCompare /\ [][NextCompare]_vars

\* the messages of a type, and of a type about a team
OfType(type) == {i \in 1..Len(changes) : changes[i].type = type}
About(type, team) == {i \in OfType(type) : changes[i].team = team}

\* C9: when old and new differ in length, or have the same length and
\* different sets of team names, has_changes is true and the messages are the
\* one count message, or the added and removed teams; none is about a
\* position or a statistic.
C9_ShortCircuit ==
    LET old == existing.val
        new == standings.val
        olds == {old[i].team : i \in 1..Len(old)}
        news == {new[i].team : i \in 1..Len(new)}
    IN  (pc = "returned" /\ (Len(old) # Len(new) \/ olds # news)) =>
            /\ has_changes
            /\ OfType("pos") = {} /\ OfType("stat") = {}
            /\ Len(old) # Len(new) =>
                   /\ Len(changes) = 1
                   /\ changes[1].type = "count"
                   /\ changes[1].old = Len(old)
                   /\ changes[1].new = Len(new)
            /\ Len(old) = Len(new) =>
                   /\ Len(changes) >= 1
                   /\ OfType("count") = {}
                   /\ Cardinality(OfType("added")) = IF news \ olds # {} THEN 1 ELSE 0
                   /\ Cardinality(OfType("removed")) = IF olds \ news # {} THEN 1 ELSE 0
                   /\ \A i \in OfType("added") : changes[i].teams = news \ olds
                   /\ \A i \in OfType("removed") : changes[i].teams = olds \ news

\* two lists of two records of the same length, one team replaced by another,
\* the remaining team with a different statistic and a different position
C9_Witness ==
    LET old == existing.val
        new == standings.val
    IN  /\ pc = "returned"
        /\ Len(old) = 2 /\ Len(new) = 2
        /\ old[1].team = TeamA /\ old[2].team = TeamA
        /\ new[1].team = TeamA /\ new[2].team = TeamB
        /\ old[2].wins # new[1].wins
        /\ old[2].position # new[1].position
        /\ Len(changes) = 1
        /\ has_changes

\* the record of a team in a list of distinct teams
RecordOf(seq, team) == seq[CHOOSE i \in 1..Len(seq) : seq[i].team = team]
IndexOf(seq, team) == CHOOSE i \in 1..Len(seq) : seq[i].team = team

SameRawCounters(old, new) ==
    \A i \in 1..Len(new) : \A k \in RawCounters :
        RecordOf(old, new[i].team)[k] = new[i][k]

\* new is old with the teams of two places exchanged, the places keeping
\* their (different) positions
TwoSwapped(old, new) ==
    \E i, j \in 1..Len(old) :
        /\ i < j
        /\ old[i].position # old[j].position
        /\ new[i].team = old[j].team /\ new[j].team = old[i].team
        /\ \A k \in 1..Len(old) :
               /\ new[k].position = old[k].position
               /\ k \notin {i, j} => new[k].team = old[k].team

\* C10: for lists of the same length and the same distinct team names, each
\* team gets, in the order of new, a position message exactly when its
\* position differs and then one statistics message exactly when one of the
\* ten raw counters differs, listing the counters that differ; calculated
\* fields are not looked at, so two teams exchanged with the same statistics
\* give two position messages and no statistics message.
C10_PerTeamMessages ==
    LET old == existing.val
        new == standings.val
    IN  (/\ pc = "returned"
         /\ Len(old) = Len(new)
         /\ Distinct(old) /\ Distinct(new)
         /\ {old[i].team : i \in 1..Len(old)} = {new[i].team : i \in 1..Len(new)})
        =>
        /\ has_changes <=> changes # <<>>
        /\ \A i \in 1..Len(changes) : changes[i].type \in {"pos", "stat"}
        /\ \A i \in 1..Len(new) :
               LET n == new[i]
                   o == RecordOf(old, n.team)
                   differing == {k \in RawCounters : o[k] # n[k]}
               IN  /\ Cardinality(About("pos", n.team)) =
                          IF o.position # n.position THEN 1 ELSE 0
                   /\ \A m \in About("pos", n.team) :
                          changes[m].old = o.position /\ changes[m].new = n.position
                   /\ Cardinality(About("stat", n.team)) =
                          IF differing # {} THEN 1 ELSE 0
                   /\ \A m \in About("stat", n.team) :
                          /\ {changes[m].stats[x].key : x \in 1..Len(changes[m].stats)}
                                 = differing
                          /\ \A x \in 1..Len(changes[m].stats) :
                                 LET c == changes[m].stats[x]
                                 IN  c.old = o[c.key] /\ c.new = n[c.key]
        /\ \A a, b \in 1..Len(changes) :
               a < b =>
                   \/ IndexOf(new, changes[a].team) < IndexOf(new, changes[b].team)
                   \/ /\ changes[a].team = changes[b].team
                      /\ changes[a].type = "pos"
                      /\ changes[b].type = "stat"
        /\ (SameRawCounters(old, new) /\ TwoSwapped(old, new)) =>
               Cardinality(OfType("pos")) = 2 /\ OfType("stat") = {}

\* two teams exchanged, the same raw counters, one calculated field changed:
\* two position messages and nothing else
C10_Witness ==
    LET old == existing.val
        new == standings.val
    IN  /\ pc = "returned"
        /\ Len(old) = 2 /\ Len(new) = 2
        /\ Distinct(old) /\ Distinct(new)
        /\ TwoSwapped(old, new)
        /\ SameRawCounters(old, new)
        /\ \E i \in 1..2 :
               RecordOf(old, new[i].team).win_percentage # new[i].win_percentage
        /\ Cardinality(OfType("pos")) = 2
        /\ Len(changes) = 2

=============================================================================
